---------------------------- MODULE Spec2Model ----------------------------
(***************************************************************************)
(* SerialMenu: the menu engine of src/SerialMenu.hpp as a state machine.   *)
(*                                                                         *)
(* The engine's statics (menu, size, waiting), the serial transport's      *)
(* pending input (rx) and the locals of a blocking getNumber() are the     *)
(* state.  Serial output is a stream of bytes; the bytes written by the    *)
(* latest top-level call are kept in out.  Characters are byte values      *)
(* 0..255, texts are sequences of byte values.                             *)
(***************************************************************************)
EXTENDS Integers, Sequences, FiniteSets, TLC

VARIABLES
    menu,         \* SerialMenu::menu: name of the loaded entry array, "nullptr" if none
    size,         \* SerialMenu::size (uint8_t)
    waiting,      \* SerialMenu::waiting (uint16_t)
    rx,           \* bytes pending in the transport, oldest first
    led,          \* level last written to LED_BUILTIN ("unset" before any write)
    pc,           \* "loop": no call in progress; "num0".."num3": inside getNumber;
                  \* "chr": inside getChar;
                  \* "undefined": the program has executed undefined behaviour
    frame,        \* the call suspended around a blocking getNumber
    num,          \* getNumber's locals
    numResult,    \* <<value>> returned by the latest getNumber or getChar call
    numIn,        \* bytes read by the current/latest getNumber or getChar call
    loopDelayMs,  \* argument of the latest run call
    op,           \* the latest top-level call: "none", "run", "load", "show", "getNumber"
    sawInput,     \* userInputAvailable of the latest run call
    out,          \* bytes written to the transport by the latest top-level call
    invoked,      \* callbacks the latest run call invoked: <<array name, index>>
    ret,          \* return value of the latest run call ("none", "pending", TRUE, FALSE)
    nread,        \* bytes the latest run call itself read from the transport
    hbMark,       \* idle markers written by the latest run call
    hbLed,        \* LED writes made by the latest run call
    idleCalls,    \* consecutive run calls without input since the last one with input
    flashLen,     \* length of the user's long PROGMEM label (menuLong)
    singleton,    \* SerialMenu::singleton: 0 for nullptr, else the number of the
                  \* SerialMenu object it points to (the n-th one constructed)
    inits,        \* how many times the constructor has run
    probe         \* entry under test and the result of isChosen on it

vars == <<menu, size, waiting, rx, led, pc, frame, num, numResult, numIn,
          loopDelayMs, op, sawInput, out, invoked, ret, nread, hbMark, hbLed,
          idleCalls, flashLen, singleton, inits, probe>>

---------------------------------------------------------------------------
(* Bounds of the model.                                                    *)

\* most bytes pending in the transport at once
MaxRx == 1
\* run is not called without input once waiting has reached this (Spec)
MaxWaiting == 2
\* run is not called without input once waiting has reached this (SpecLoop)
MaxLoopWaiting == 102
\* a numeric byte arrives during getNumber only while fewer bytes than this are
\* read or pending (a byte that ends the number always may)
MaxNumLen == 5
\* longest PROGMEM label shown (SpecShow)
MaxLabelLen == 270
\* largest entry count the host passes to load (SpecLoad)
MaxCount == 3
\* most bytes pending in the transport at once (SpecBlock, SpecConsume)
MaxBurst == 2
\* run is not called without input after this many such calls in a row (SpecWrap)
MaxWrapCalls == 65540

---------------------------------------------------------------------------
(* Bytes, bit operations and texts.                                        *)

Byte == 0..255

\* x | 0x20
BitOr20(x) == IF (x \div 32) % 2 = 1 THEN x ELSE x + 32
\* x & ~0x20
BitClear20(x) == IF (x \div 32) % 2 = 1 THEN x - 32 ELSE x
\* x & 0x20, as a truth value
Bit20(x) == (x \div 32) % 2 = 1

\* the line feed run and getNumber skip
LF == 10

\* what Serial.println appends
CRLF == <<13, 10>>

print(s) == s
println(s) == s \o CRLF

\* ": Invalid menu choice."
InvalidText == <<58, 32, 73, 110, 118, 97, 108, 105, 100, 32, 109, 101, 110,
                 117, 32, 99, 104, 111, 105, 99, 101, 46>>
\* "\nMenu:"
MenuHeader == <<10, 77, 101, 110, 117, 58>>
\* "."
Dot == <<46>>

Min(a, b) == IF a < b THEN a ELSE b

---------------------------------------------------------------------------
(* SerialMenuEntry.                                                        *)

\* the key the constructor stores: bit 0x20 carries the PROGMEM flag
KeyOf(isprogMem, k) == IF isprogMem THEN BitOr20(k) ELSE BitClear20(k)

SerialMenuEntry(m, isprogMem, k, c) ==
    [message |-> m, key |-> KeyOf(isprogMem, k), actionCallback |-> c]

getMenu(e) == e.message

isProgMem(e) == Bit20(e.key)

isChosen_exact(e, k) == k = e.key
isChosen(e, k) == BitOr20(k) = BitOr20(e.key)


---------------------------------------------------------------------------
(* The user's program (usage example, plus a menu with symbol and          *)
(* duplicate selectors and a menu with one long PROGMEM label).            *)

\* callbacks: what the lambda or function does
NoTarget == "nullptr"
CbPrint(t)    == [op |-> "print",    target |-> NoTarget, text |-> t]
CbShow        == [op |-> "show",     target |-> NoTarget, text |-> <<>>]
CbLoad(m)     == [op |-> "load",     target |-> m,        text |-> <<>>]
CbLoadShow(m) == [op |-> "loadshow", target |-> m,        text |-> <<>>]
CbGetNum(t)   == [op |-> "getnum",   target |-> NoTarget, text |-> t]

\* "choice X!"
ChoiceX == <<99, 104, 111, 105, 99, 101, 32, 88, 33>>
\* "Running foo!"
RunningFoo == <<82, 117, 110, 110, 105, 110, 103, 32, 102, 111, 111, 33>>

\* a PROGMEM text of L characters, none of them NUL
LongLabel(L) == [p \in 1..L |-> 1 + ((p - 1) % 251)]

menu1 == <<
    \* {"X (Text in SRAM)", false, '1', [](){ Serial.println("choice X!"); } }
    SerialMenuEntry(<<88, 32, 40, 84, 101, 120, 116, 32, 105, 110, 32, 83, 82, 65, 77, 41>>,
                    FALSE, 49, CbPrint(ChoiceX)),
    \* {menu1String1, false, 'y', [](){ menu.show(); } }
    SerialMenuEntry(<<89, 32, 45, 32, 114, 101, 115, 105, 100, 112, 108, 97, 121>>,
                    FALSE, 121, CbShow),
    \* {menu1String2, true, 'Z', [](){ menu.load(menu2, menu2Size); menu.show(); } }
    SerialMenuEntry(<<90, 32, 45, 32, 115, 101, 99, 111, 110, 100, 32, 109, 101, 110, 117>>,
                    TRUE, 90, CbLoadShow("menu2")) >>

menu2 == <<
    \* {"Execute foo()", false, 'e', foo }
    SerialMenuEntry(<<69, 120, 101, 99, 117, 116, 101, 32, 102, 111, 111, 40, 41>>,
                    FALSE, 101, CbGetNum(RunningFoo)),
    \* {"Set var2", false, 'S', [](){ var2 = menu.getUint16_t(); } }
    SerialMenuEntry(<<83, 101, 116, 32, 118, 97, 114, 50>>, FALSE, 83, CbGetNum(<<>>)),
    \* {"Rediplay menu", false, 'r', [](){ menu.show(); } }
    SerialMenuEntry(<<82, 101, 100, 105, 112, 108, 97, 121, 32, 109, 101, 110, 117>>,
                    FALSE, 114, CbShow),
    \* {"Back to menu1", false, 'B', [](){ menu.load(menu1, menu1Size); menu.show(); } }
    SerialMenuEntry(<<66, 97, 99, 107, 32, 116, 111, 32, 109, 101, 110, 117, 49>>,
                    FALSE, 66, CbLoadShow("menu1")) >>

menu3 == <<
    \* {"star", false, '*', print }
    SerialMenuEntry(<<115, 116, 97, 114>>, FALSE, 42, CbPrint(<<42>>)),
    \* {"a1", true, 'a', [](){ menu.load(menu1, menu1Size); } }
    SerialMenuEntry(<<97, 49>>, TRUE, 97, CbLoad("menu1")),
    \* {"a2", false, 'A', print }: same selector as the entry before, case folded
    SerialMenuEntry(<<97, 50>>, FALSE, 65, CbPrint(<<65>>)),
    \* {"quit", false, 'q', [](){ menu.load(nullptr, 0); } }
    SerialMenuEntry(<<113, 117, 105, 116>>, FALSE, 113, CbLoad("nullptr")) >>

\* one entry whose label is a PROGMEM text of flashLen characters
menuLong == <<
    SerialMenuEntry(LongLabel(flashLen), TRUE, 108, CbShow) >>

MenuNames == {"menu1", "menu2", "menu3", "menuLong"}

\* the array a menu pointer points to (nullptr: no entries to read)
MenuArray(m) ==
    CASE m = "menu1" -> menu1
      [] m = "menu2" -> menu2
      [] m = "menu3" -> menu3
      [] m = "menuLong" -> menuLong
      [] OTHER -> <<>>

\* GET_MENU_SIZE(menu)
GET_MENU_SIZE(m) == Len(MenuArray(m))

---------------------------------------------------------------------------
(* show(): the bytes it writes for the array m with n entries.             *)

\* If PROGMEM is used, copy using this SRAM buffer size.
PROGMEM_BUF_SIZE == 8

\* strlcpy_P(buffer, src, siz): at most siz-1 characters copied, strlen(src) returned
strlcpy_P(src, siz) ==
    [buffer |-> SubSeq(src, 1, Min(Len(src), siz - 1)), ret |-> Len(src)]

\* uint8_t len = ...
Uint8(x) == x % 256

\* the while (len >= PROGMEM_BUF_SIZE) loop: progMemPt points at the text pt
RECURSIVE ChunkLoop(_, _, _)
ChunkLoop(pt, len, written) ==
    IF len >= PROGMEM_BUF_SIZE
    THEN LET next == SubSeq(pt, PROGMEM_BUF_SIZE, Len(pt))
             r    == strlcpy_P(next, PROGMEM_BUF_SIZE)
         IN  ChunkLoop(next, Uint8(r.ret), written \o print(r.buffer))
    ELSE written

\* the PROGMEM branch of show for one entry
ShowProgMem(e) ==
    LET r == strlcpy_P(getMenu(e), PROGMEM_BUF_SIZE)
    IN  println(ChunkLoop(getMenu(e), Uint8(r.ret), print(r.buffer)))

ShowEntry(e) ==
    IF isProgMem(e) THEN ShowProgMem(e) ELSE println(getMenu(e))

RECURSIVE ShowEntries(_, _, _)
ShowEntries(arr, i, n) ==
    IF i < n THEN ShowEntry(arr[i + 1]) \o ShowEntries(arr, i + 1, n) ELSE <<>>

ShowOutput(m, n) == println(MenuHeader) \o ShowEntries(MenuArray(m), 0, n)

---------------------------------------------------------------------------
(* The transport (Serial), by its interface.                               *)

\* Serial.available()
available_always(q) == TRUE
available(q) == Len(q) > 0
\* Serial.read(): the oldest pending byte; (char)-1 when nothing is pending
SerialRead(q) == IF Len(q) > 0 THEN Head(q) ELSE 255
SerialRest_flush(q) == <<>>
SerialRest(q) == IF Len(q) > 0 THEN Tail(q) ELSE q

---------------------------------------------------------------------------
(* run(): the heartbeat block.                                             *)

\* number of values of a uint16_t
Uint16Modulus == 65536
Uint16(x) == x % Uint16Modulus

callsPerSecond(E) == Uint16(1000 \div E)
loopsPerTick_once(E) == callsPerSecond(E)
loopsPerTick(E) == Uint16(10 * callsPerSecond(E))
loopsPerBlink(E) == callsPerSecond(E)

\* w % d == 0; with d = 0 the result is undefined: u stands for what the build yields
ModIsZero(w, d, u) == IF d = 0 THEN u ELSE w % d = 0

\* ((waiting / loopsPerBlink) & 0x01) ? HIGH : LOW; undefined with loopsPerBlink = 0
BlinkLevel(w, d, u) ==
    IF d = 0 THEN u ELSE IF (w \div d) % 2 = 1 THEN "HIGH" ELSE "LOW"

\* what the undefined operations may yield; one value where they are defined
ModOutcomes(E) == IF callsPerSecond(E) = 0 THEN BOOLEAN ELSE {FALSE}
LevelOutcomes(E) == IF callsPerSecond(E) = 0 THEN {"HIGH", "LOW"} ELSE {"LOW"}

\* the new value of waiting after a call that found input
ResetOnInput(w, E) == IF w >= loopsPerTick(E) THEN 0 ELSE w

\* The block's effect: avail is userInputAvailable, w the value of waiting,
\* u1, u2, ul the outcomes of the undefined operations (read only when E > 1000).
Heartbeat(E, avail, w, u1, u2, ul) ==
    IF ~avail
    THEN LET w1    == Uint16(w + 1)
             blink == w1 >= loopsPerTick(E) /\ ModIsZero(w1, loopsPerBlink(E), u1)
             mark  == ModIsZero(w1, loopsPerTick(E), u2)
         IN  [waiting |-> w1,
              ledWrite |-> blink,
              level |-> BlinkLevel(w1, loopsPerBlink(E), ul),
              mark |-> mark,
              out |-> IF mark THEN print(Dot) ELSE <<>>]
    ELSE [waiting |-> ResetOnInput(w, E),
          ledWrite |-> FALSE,
          level |-> "LOW",
          mark |-> FALSE,
          out |-> IF w >= loopsPerTick(E) THEN println(<<>>) ELSE <<>>]

---------------------------------------------------------------------------
(* run(): the scan of the menu and the dispatch.                           *)

\* if (menuChoice == 0x0A)
IsLineFeed_cr(c) == c = 13
IsLineFeed(c) == c = LF

\* for (i = 0; i < size; ++i) if (menu[i].isChosen(menuChoice)) {...; break;}
\* the value of i when the loop is left
RECURSIVE ScanFrom(_, _, _, _)
ScanFrom(arr, i, n, k) ==
    IF i < n
    THEN IF isChosen(arr[i + 1], k) THEN i ELSE ScanFrom(arr, i + 1, n, k)
    ELSE i

RECURSIVE ScanLastFrom(_, _, _, _)
ScanLastFrom(arr, i, n, k) ==
    IF i = 0 THEN n
    ELSE IF isChosen(arr[i], k) THEN i - 1 ELSE ScanLastFrom(arr, i - 1, n, k)

Scan_last(arr, n, k) == ScanLastFrom(arr, n, n, k)
Scan(arr, n, k) == ScanFrom(arr, 0, n, k)

\* if (i == size), with size read again after the callback
Unmatched_beyond(i, n) == i > n
Unmatched(i, n) == i = n

\* what run writes after the scan: the diagnostic, or nothing
RunTail(i, n, menuChoice) ==
    IF Unmatched(i, n) THEN print(<<menuChoice>>) \o println(InvalidText) ELSE <<>>

CallbackEffect_unload(cb, m, n) == [menu |-> "nullptr", size |-> 0, out |-> <<>>]
\* a callback that does not block: the statics it leaves and the bytes it writes
CallbackEffect(cb, m, n) ==
    CASE cb.op = "print"    -> [menu |-> m, size |-> n, out |-> println(cb.text)]
      [] cb.op = "show"     -> [menu |-> m, size |-> n, out |-> ShowOutput(m, n)]
      [] cb.op = "load"     -> [menu |-> cb.target, size |-> GET_MENU_SIZE(cb.target),
                                out |-> <<>>]
      [] cb.op = "loadshow" -> [menu |-> cb.target, size |-> GET_MENU_SIZE(cb.target),
                                out |-> ShowOutput(cb.target, GET_MENU_SIZE(cb.target))]

---------------------------------------------------------------------------
(* getNumber<T>(): arithmetic in T.                                        *)

Types == {"uint8_t", "uint16_t", "int16_t"}

TypeSigned(T) == T = "int16_t"
TypeModulus(T) == IF T = "uint8_t" THEN 256 ELSE 65536
TMax(T) == IF TypeSigned(T) THEN (TypeModulus(T) \div 2) - 1 ELSE TypeModulus(T) - 1
TMin(T) == IF TypeSigned(T) THEN -(TypeModulus(T) \div 2) ELSE 0
InRange(T, x) == TMin(T) <= x /\ x <= TMax(T)

\* what the build may make of a signed overflow (undefined): wrap around or saturate
Overflows == {"wrap", "max"}

\* the value of type T an arithmetic result x becomes; u is read on signed overflow only
Conv(T, x, u) ==
    IF InRange(T, x) THEN x
    ELSE IF ~TypeSigned(T) THEN x % TypeModulus(T)
    ELSE IF u = "wrap"
         THEN ((x - TMin(T)) % TypeModulus(T)) + TMin(T)
         ELSE TMax(T)

Abs(x) == IF x < 0 THEN -x ELSE x

\* a / b of C++: the quotient truncated toward zero
TruncDiv(a, b) ==
    IF (a < 0) = (b < 0) THEN Abs(a) \div Abs(b) ELSE -(Abs(a) \div Abs(b))

IsDigit(c) == c >= 48 /\ c <= 57
\* (c >= '0' and c <= '9') || c == '.'
IsNumeric_digits(c) == IsDigit(c)
IsNumeric(c) == IsDigit(c) \/ c = 46

\* T value = 0; bool isNegative = false; T decimals = 0;
NumInit(T, msg) ==
    [T |-> T, msg |-> msg, value |-> 0, isNegative |-> FALSE, decimals |-> 0,
     ub |-> FALSE]

\* one pass of the body of while ((c >= '0' and c <= '9') || c == '.')
NumLoopBody(n, c, u) ==
    LET d10 == n.decimals * 10
        d1  == Conv(n.T, d10, u)
        v10 == n.value * 10 + (c - 48)
    IN  IF IsDigit(c)
        THEN [n EXCEPT !.decimals = d1,
                       !.value = Conv(n.T, v10, u),
                       !.ub = n.ub \/ (TypeSigned(n.T) /\
                                       (~InRange(n.T, d10) \/ ~InRange(n.T, v10)))]
        ELSE [n EXCEPT !.decimals = IF d1 = 0 /\ c = 46 THEN 1 ELSE d1,
                       !.ub = n.ub \/ (TypeSigned(n.T) /\ ~InRange(n.T, d10))]

\* value /= decimals
Scale(v, d) == TruncDiv(v, d)

\* after the loop: the value returned
NumValue(n, u) ==
    LET v1 == IF n.isNegative THEN Conv(n.T, -n.value, u) ELSE n.value
    IN  IF n.decimals # 0 THEN Scale(v1, n.decimals) ELSE v1

\* the characters Serial.println(value) writes for the number v
RECURSIVE DecDigits(_)
DecDigits(v) == IF v < 10 THEN <<48 + v>> ELSE DecDigits(v \div 10) \o <<48 + (v % 10)>>
DecText(v) == IF v < 0 THEN <<45>> \o DecDigits(-v) ELSE DecDigits(v)

\* the prompt a caller passes as message: "? "
Prompt == <<63, 32>>

\* the locals before a call: the callbacks of the example read a uint16_t, unprompted
NoNumber == NumInit("uint16_t", FALSE)

NoFrame == [caller |-> "none", i |-> 0, menuChoice |-> 0, text |-> <<>>]

---------------------------------------------------------------------------
(* Inputs of the model.                                                    *)

\* loop delays the host passes to run (ms); above 1000 callsPerSecond is 0
Elapsed == {1000, 2000}
\* loop delays of a host loop that always passes the same one
LoopDelays == {100, 250, 1000, 2000}

\* bytes the user types at the menu: LF 1 A B e x
MenuBytes == {10, 49, 65, 66, 101, 120}
\* bytes the user types while the host loop idles: LF x
LoopBytes == {10, 120}
\* bytes the user types at a number prompt: LF - . 0 2 4
NumBytes == {10, 45, 46, 48, 50, 52}

\* bytes the user types at a menu that may be missing: LF 1 x
LoadBytes == {10, 49, 120}
\* pointers the host passes to load
LoadArrays == {"nullptr", "menu1"}

\* arrays the host passes to get(array, arraySize)
GetArrays == {"menu1", "menu2"}

\* bytes the user types at a blocking read: LF - 2 e
BlockBytes == {10, 45, 50, 101}
\* the delay the host passes to run while it uses blocking reads
BlockDelay == 1000

\* bytes pending when the host asks for a number: LF - . 2
ConsumeBytes == {10, 45, 46, 50}

\* bytes the user types while the host uses every operation: LF B e y
OpsBytes == {10, 66, 101, 121}
\* arrays that host loads
OpsArrays == {"menu1", "menu2"}

\* the delay of the host loop that is left idle for hours
WrapDelay == 100

\* getNumber<T>(message) calls the host makes: <<T, message given>>
NumCalls == {<<"uint8_t", FALSE>>, <<"uint16_t", FALSE>>, <<"int16_t", TRUE>>}

\* length of the PROGMEM label of menuLong unless a specification varies it
ShortLabelLen == 9

---------------------------------------------------------------------------
(* Initial state: the statics as SerialMenu.cpp defines them, nothing       *)
(* received, no call made yet.                                             *)

NoProbe == [stage |-> "none", s |-> 0, isprogMem |-> FALSE, key |-> 0, k |-> 0,
            chosen |-> FALSE]

InitWith(delays, labelLens) ==
    /\ menu = "nullptr"
    /\ size = 0
    /\ waiting = 0
    /\ rx = <<>>
    /\ led = "unset"
    /\ pc = "loop"
    /\ frame = NoFrame
    /\ num = NoNumber
    /\ numResult = <<>>
    /\ numIn = <<>>
    /\ loopDelayMs \in delays
    /\ op = "none"
    /\ sawInput = FALSE
    /\ out = <<>>
    /\ invoked = <<>>
    /\ ret = "none"
    /\ nread = 0
    /\ hbMark = 0
    /\ hbLed = 0
    /\ idleCalls = 0
    /\ flashLen \in labelLens
    /\ singleton = 0
    /\ inits = 0
    /\ probe = NoProbe

Init == InitWith({0}, {ShortLabelLen})

---------------------------------------------------------------------------
(* The transport delivers a byte.                                          *)

ArriveUpTo(b, cap) ==
    /\ Len(rx) < cap
    /\ (pc # "loop" /\ IsNumeric(b)) => Len(numIn) + Len(rx) < MaxNumLen
    /\ rx' = Append(rx, b)
    /\ UNCHANGED <<menu, size, waiting, led, pc, frame, num, numResult, numIn,
                   loopDelayMs, op, sawInput, out, invoked, ret, nread, hbMark,
                   hbLed, idleCalls, flashLen, singleton, inits, probe>>

Arrive(b) == ArriveUpTo(b, MaxRx)

---------------------------------------------------------------------------
(* load(array, arraySize) and show(), called by the host.                  *)

\* menu[i] with i < size is read although menu is the null pointer: undefined
\* behaviour, after which nothing is known about the program (pc "undefined")
NullDeref(m, n) == m = "nullptr" /\ n > 0

Load(m) ==
    /\ pc = "loop"
    /\ menu' = m
    /\ size' = GET_MENU_SIZE(m)
    /\ op' = "load"
    /\ out' = <<>>
    /\ invoked' = <<>>
    /\ ret' = "none"
    /\ nread' = 0
    /\ hbMark' = 0
    /\ hbLed' = 0
    /\ sawInput' = FALSE
    /\ num' = NoNumber
    /\ numResult' = <<>>
    /\ numIn' = <<>>
    /\ UNCHANGED <<waiting, rx, led, pc, frame, loopDelayMs, idleCalls, flashLen, singleton, inits,
                   probe>>

\* load(array, arraySize) with a count the host chose freely
LoadCount(m, n) ==
    /\ pc = "loop"
    /\ menu' = m
    /\ size' = Uint8(n)
    /\ op' = "load"
    /\ out' = <<>>
    /\ invoked' = <<>>
    /\ ret' = "none"
    /\ nread' = 0
    /\ hbMark' = 0
    /\ hbLed' = 0
    /\ sawInput' = FALSE
    /\ num' = NoNumber
    /\ numResult' = <<>>
    /\ numIn' = <<>>
    /\ UNCHANGED <<waiting, rx, led, pc, frame, loopDelayMs, idleCalls, flashLen, singleton, inits,
                   probe>>

Show ==
    /\ pc = "loop"
    /\ op' = "show"
    /\ IF NullDeref(menu, size)
       THEN \* the header is written, then menu[0] is read through a null pointer
            /\ out' = println(MenuHeader)
            /\ pc' = "undefined"
       ELSE /\ out' = ShowOutput(menu, size)
            /\ pc' = pc
    /\ invoked' = <<>>
    /\ ret' = "none"
    /\ nread' = 0
    /\ hbMark' = 0
    /\ hbLed' = 0
    /\ sawInput' = FALSE
    /\ num' = NoNumber
    /\ numResult' = <<>>
    /\ numIn' = <<>>
    /\ UNCHANGED <<menu, size, waiting, rx, led, frame, loopDelayMs, idleCalls,
                   flashLen, singleton, inits, probe>>

---------------------------------------------------------------------------
(* run(loopDelayMs), up to its return or to the first blocking read of the *)
(* callback it invoked.  idleCap bounds the calls made without input.      *)

Run(E, idleCap) ==
    /\ pc = "loop"
    /\ ~available(rx) => waiting < idleCap
    /\ \E u1 \in ModOutcomes(E), u2 \in ModOutcomes(E), ul \in LevelOutcomes(E) :
       LET avail      == available(rx)
           hb         == Heartbeat(E, avail, waiting, u1, u2, ul)
           menuChoice == SerialRead(rx)
           i          == Scan(MenuArray(menu), size, menuChoice)
           cb         == MenuArray(menu)[i + 1].actionCallback
           eff        == CallbackEffect(cb, menu, size)
       IN  /\ loopDelayMs' = E
           /\ op' = "run"
           /\ sawInput' = avail
           /\ waiting' = hb.waiting
           /\ led' = IF hb.ledWrite THEN hb.level ELSE led
           /\ hbLed' = IF hb.ledWrite THEN 1 ELSE 0
           /\ hbMark' = IF hb.mark THEN 1 ELSE 0
           /\ idleCalls' = IF avail THEN 0 ELSE idleCalls + 1
           /\ UNCHANGED <<flashLen, singleton, inits, probe>>
           /\ num' = NoNumber
           /\ numResult' = <<>>
           /\ numIn' = <<>>
           /\ IF ~avail
              THEN \* return false
                   /\ ret' = "false"
                   /\ out' = hb.out
                   /\ invoked' = <<>>
                   /\ nread' = 0
                   /\ UNCHANGED <<menu, size, rx, pc, frame>>
              ELSE /\ rx' = SerialRest(rx)
                   /\ nread' = 1
                   /\ IF IsLineFeed(menuChoice)
                      THEN \* return false
                           /\ ret' = "false"
                           /\ out' = hb.out
                           /\ invoked' = <<>>
                           /\ UNCHANGED <<menu, size, pc, frame>>
                      ELSE IF NullDeref(menu, size)
                      THEN \* menu[0].isChosen() reads through a null pointer
                           /\ ret' = "pending"
                           /\ out' = hb.out
                           /\ invoked' = <<>>
                           /\ pc' = "undefined"
                           /\ UNCHANGED <<menu, size, frame>>
                      ELSE IF i >= size
                      THEN \* no entry chosen
                           /\ ret' = "true"
                           /\ out' = hb.out \o RunTail(i, size, menuChoice)
                           /\ invoked' = <<>>
                           /\ UNCHANGED <<menu, size, pc, frame>>
                      ELSE IF cb.op = "getnum"
                      THEN \* the callback blocks in getNumber<uint16_t>()
                           /\ ret' = "pending"
                           /\ out' = hb.out
                           /\ invoked' = << <<menu, i>> >>
                           /\ pc' = "num0"
                           /\ frame' = [caller |-> "run", i |-> i,
                                        menuChoice |-> menuChoice, text |-> cb.text]
                           /\ UNCHANGED <<menu, size>>
                      ELSE \* the callback returns; then if (i == size)
                           /\ ret' = "true"
                           /\ menu' = eff.menu
                           /\ size' = eff.size
                           /\ out' = hb.out \o eff.out \o RunTail(i, eff.size, menuChoice)
                           /\ invoked' = << <<menu, i>> >>
                           /\ UNCHANGED <<pc, frame>>

---------------------------------------------------------------------------
(* getNumber<T>(message): the call, then one step per byte read.  pc tells  *)
(* which read the call is blocked in: num0 the first (line 386), num1 the   *)
(* one after a leading line feed (390), num2 the one after '-' (397), num3  *)
(* the one at the end of the loop body (414).                              *)

GetNumber(T, msg) ==
    /\ pc = "loop"
    /\ pc' = "num0"
    /\ frame' = [NoFrame EXCEPT !.caller = "host"]
    /\ num' = NumInit(T, msg)
    /\ numResult' = <<>>
    /\ numIn' = <<>>
    /\ op' = "getNumber"
    /\ out' = IF msg THEN print(Prompt) ELSE <<>>
    /\ invoked' = <<>>
    /\ ret' = "none"
    /\ nread' = 0
    /\ hbMark' = 0
    /\ hbLed' = 0
    /\ sawInput' = FALSE
    /\ UNCHANGED <<menu, size, waiting, rx, led, loopDelayMs, idleCalls, flashLen, singleton, inits,
                   probe>>

\* what is written once getNumber has returned v to the caller in frame
AfterNumber(v) ==
    (IF num.msg THEN println(DecText(v)) ELSE <<>>)
    \o (IF frame.caller = "run"
        THEN (IF frame.text # <<>> THEN println(frame.text) ELSE <<>>)
             \o RunTail(frame.i, size, frame.menuChoice)
        ELSE <<>>)

NumStep ==
    /\ pc \in {"num0", "num1", "num2", "num3"}
    /\ available(rx)
    /\ \E u \in Overflows :
       LET c  == SerialRead(rx)
           n1 == IF pc \in {"num0", "num1"} /\ c = 45
                 THEN [num EXCEPT !.isNegative = TRUE]
                 ELSE IF IsNumeric(c) THEN NumLoopBody(num, c, u) ELSE num
           v  == NumValue(num, u)
       IN  /\ rx' = SerialRest(rx)
           /\ numIn' = Append(numIn, c)
           /\ IF pc = "num0" /\ c = LF
              THEN \* skip the first line feed
                   /\ pc' = "num1"
                   /\ UNCHANGED <<num, numResult, frame, out, ret>>
              ELSE IF pc \in {"num0", "num1"} /\ c = 45
              THEN \* '-': isNegative = true
                   /\ pc' = "num2"
                   /\ num' = n1
                   /\ UNCHANGED <<numResult, frame, out, ret>>
              ELSE IF IsNumeric(c)
              THEN \* one pass of the loop body
                   /\ pc' = "num3"
                   /\ num' = n1
                   /\ UNCHANGED <<numResult, frame, out, ret>>
              ELSE \* the loop is left: negate, scale, return
                   /\ pc' = "loop"
                   /\ num' = [num EXCEPT !.value = v,
                                         !.ub = num.ub \/ (TypeSigned(num.T) /\
                                                num.isNegative /\ ~InRange(num.T, -num.value))]
                   /\ numResult' = <<v>>
                   /\ out' = out \o AfterNumber(v)
                   /\ ret' = IF frame.caller = "run" THEN "true" ELSE ret
                   /\ frame' = NoFrame
    /\ UNCHANGED <<menu, size, waiting, led, loopDelayMs, op, sawInput, invoked,
                   nread, hbMark, hbLed, idleCalls, flashLen, singleton, inits, probe>>

---------------------------------------------------------------------------
(* getChar(): the call, then the read once a byte is available.            *)

GetChar ==
    /\ pc = "loop"
    /\ pc' = "chr"
    /\ frame' = [NoFrame EXCEPT !.caller = "host"]
    /\ num' = NoNumber
    /\ numResult' = <<>>
    /\ numIn' = <<>>
    /\ op' = "getChar"
    /\ out' = <<>>
    /\ invoked' = <<>>
    /\ ret' = "none"
    /\ nread' = 0
    /\ hbMark' = 0
    /\ hbLed' = 0
    /\ sawInput' = FALSE
    /\ UNCHANGED <<menu, size, waiting, rx, led, loopDelayMs, idleCalls, flashLen,
                   singleton, inits, probe>>

CharStep ==
    /\ pc = "chr"
    /\ available(rx)
    /\ rx' = SerialRest(rx)
    /\ numIn' = <<SerialRead(rx)>>
    /\ numResult' = <<SerialRead(rx)>>
    /\ pc' = "loop"
    /\ frame' = NoFrame
    /\ UNCHANGED <<menu, size, waiting, led, num, loopDelayMs, op, sawInput, out,
                   invoked, ret, nread, hbMark, hbLed, idleCalls, flashLen, singleton,
                   inits, probe>>

---------------------------------------------------------------------------
(* get() and get(array, arraySize): the engine is constructed by the first  *)
(* call.  The constructor opens the transport, waits until it is ready,     *)
(* prints the banner and sets the LED pin up.                               *)

\* "SerialMenu - Copyright (c) 2019 Dan Truong"
SERIAL_MENU_COPYRIGHT == <<83, 101, 114, 105, 97, 108, 77, 101, 110, 117, 32, 45, 32, 67, 111,
                         112, 121, 114, 105, 103, 104, 116, 32, 40,
                         99, 41, 32, 50, 48, 49, 57, 32, 68, 97, 110,
                         32, 84, 114, 117, 111, 110, 103>>

\* if (singleton == nullptr)
NoInstance_always(s) == TRUE
NoInstance(s) == s = 0

\* what get() leaves in singleton and inits, and what it writes
GetEffect(s, n) ==
    IF NoInstance(s)
    THEN [singleton |-> n + 1, inits |-> n + 1, out |-> println(SERIAL_MENU_COPYRIGHT)]
    ELSE [singleton |-> s, inits |-> n, out |-> <<>>]

Get ==
    /\ pc = "loop"
    /\ singleton' = GetEffect(singleton, inits).singleton
    /\ inits' = GetEffect(singleton, inits).inits
    /\ op' = "get"
    /\ out' = GetEffect(singleton, inits).out
    /\ invoked' = <<>>
    /\ ret' = "none"
    /\ nread' = 0
    /\ hbMark' = 0
    /\ hbLed' = 0
    /\ sawInput' = FALSE
    /\ num' = NoNumber
    /\ numResult' = <<>>
    /\ numIn' = <<>>
    /\ UNCHANGED <<menu, size, waiting, rx, led, pc, frame, loopDelayMs, idleCalls,
                   flashLen, probe>>

GetLoad(m) ==
    /\ pc = "loop"
    /\ singleton' = GetEffect(singleton, inits).singleton
    /\ inits' = GetEffect(singleton, inits).inits
    /\ menu' = m
    /\ size' = GET_MENU_SIZE(m)
    /\ op' = "get"
    /\ out' = GetEffect(singleton, inits).out
    /\ invoked' = <<>>
    /\ ret' = "none"
    /\ nread' = 0
    /\ hbMark' = 0
    /\ hbLed' = 0
    /\ sawInput' = FALSE
    /\ num' = NoNumber
    /\ numResult' = <<>>
    /\ numIn' = <<>>
    /\ UNCHANGED <<waiting, rx, led, pc, frame, loopDelayMs, idleCalls, flashLen,
                   probe>>

---------------------------------------------------------------------------
(* A menu entry is constructed, then asked isChosen(k).                    *)

Construct(s, isprogMem) ==
    /\ probe.stage = "none"
    /\ probe' = [probe EXCEPT !.stage = "built", !.s = s, !.isprogMem = isprogMem,
                              !.key = SerialMenuEntry(<<>>, isprogMem, s, CbShow).key]
    /\ UNCHANGED <<menu, size, waiting, rx, led, pc, frame, num, numResult, numIn,
                   loopDelayMs, op, sawInput, out, invoked, ret, nread, hbMark,
                   hbLed, idleCalls, flashLen, singleton, inits>>

Choose(k) ==
    /\ probe.stage = "built"
    /\ probe' = [probe EXCEPT !.stage = "asked", !.k = k,
                   !.chosen = isChosen(SerialMenuEntry(<<>>, probe.isprogMem, probe.s,
                                                       CbShow), k)]
    /\ UNCHANGED <<menu, size, waiting, rx, led, pc, frame, num, numResult, numIn,
                   loopDelayMs, op, sawInput, out, invoked, ret, nread, hbMark,
                   hbLed, idleCalls, flashLen, singleton, inits>>

---------------------------------------------------------------------------
(* Specifications.                                                         *)

\* the engine driven by a host and a user at the menu
Next ==
    \/ \E b \in MenuBytes : Arrive(b)
    \/ \E m \in MenuNames : Load(m)
    \/ Show
    \/ \E E \in Elapsed : Run(E, MaxWaiting)
    \/ NumStep

Spec == Init /\ [][Next]_vars

\* a host loop that calls run with the same delay every time
InitLoop == InitWith(LoopDelays, {ShortLabelLen})

NextLoop ==
    \/ \E b \in LoopBytes : Arrive(b)
    \/ Run(loopDelayMs, MaxLoopWaiting)

SpecLoop == InitLoop /\ [][NextLoop]_vars

\* entries of every selector and storage flag, asked about every byte
NextEntry ==
    \/ \E s \in Byte, isprogMem \in BOOLEAN : Construct(s, isprogMem)
    \/ \E k \in Byte : Choose(k)

SpecEntry == Init /\ [][NextEntry]_vars

\* show() of a menu whose PROGMEM label has any length up to MaxLabelLen
InitShow == InitWith({0}, 0..MaxLabelLen)

NextShow ==
    \/ Load("menuLong")
    \/ Show

SpecShow == InitShow /\ [][NextShow]_vars

\* getNumber called by the host, for each type
NextNum ==
    \/ \E b \in NumBytes : Arrive(b)
    \/ \E call \in NumCalls : GetNumber(call[1], call[2])
    \/ NumStep

SpecNum == Init /\ [][NextNum]_vars

\* a host that passes load any pointer it has, null included, with any count
\* that does not run past the array
NextLoad ==
    \/ \E b \in LoadBytes : Arrive(b)
    \/ \E m \in LoadArrays, n \in 0..MaxCount :
          (m = "nullptr" \/ n <= GET_MENU_SIZE(m)) /\ LoadCount(m, n)
    \/ Show
    \/ \E E \in Elapsed : Run(E, MaxWaiting)

SpecLoad == Init /\ [][NextLoad]_vars

\* a host that asks for the engine any number of times, anywhere in its program
NextGet ==
    \/ \E b \in LoadBytes : Arrive(b)
    \/ Get
    \/ \E m \in GetArrays : GetLoad(m)
    \/ Show
    \/ \E E \in Elapsed : Run(E, MaxWaiting)

SpecGet == Init /\ [][NextGet]_vars

\* blocking reads: getChar and getNumber called by the host, getNumber called
\* by the callbacks of menu2, several bytes pending.  A call blocked in
\* while (!Serial.available()); polls without pause, so it reads a byte that
\* stays available.
NextBlock ==
    \/ \E b \in BlockBytes : ArriveUpTo(b, MaxBurst)
    \/ Load("menu2")
    \/ Run(BlockDelay, MaxWaiting)
    \/ GetNumber("int16_t", FALSE)
    \/ GetChar
    \/ NumStep
    \/ CharStep

SpecBlock == Init /\ [][NextBlock]_vars /\ WF_vars(NumStep) /\ WF_vars(CharStep)

\* getNumber called by the host while several bytes are pending
NextConsume ==
    \/ \E b \in ConsumeBytes : ArriveUpTo(b, MaxBurst)
    \/ GetNumber("int16_t", FALSE)
    \/ NumStep

SpecConsume == Init /\ [][NextConsume]_vars

\* every operation of the engine, called by the host in any order
NextOps ==
    \/ \E b \in OpsBytes : Arrive(b)
    \/ \E m \in OpsArrays : Load(m)
    \/ Show
    \/ \E E \in Elapsed : Run(E, MaxWaiting)
    \/ GetNumber("uint16_t", FALSE)
    \/ GetChar
    \/ NumStep
    \/ CharStep

SpecOps == Init /\ [][NextOps]_vars

\* a host loop, run(100) every time, left idle until waiting has wrapped
\* around; then the user types one byte and run handles it
InitWrap == InitWith({WrapDelay}, {ShortLabelLen})

NextWrap ==
    \/ idleCalls >= Uint16Modulus /\ \E b \in LoopBytes : Arrive(b)
    \/ /\ op = "run" => ~sawInput
       /\ available(rx) \/ idleCalls < MaxWrapCalls
       /\ Run(loopDelayMs, Uint16Modulus)

SpecWrap == InitWrap /\ [][NextWrap]_vars

---------------------------------------------------------------------------
(* Properties.                                                             *)

StartsWith(seq, pat) == Len(seq) >= Len(pat) /\ SubSeq(seq, 1, Len(pat)) = pat
EndsWith(seq, pat) ==
    Len(seq) >= Len(pat) /\ SubSeq(seq, Len(seq) - Len(pat) + 1, Len(seq)) = pat
Contains(seq, pat) ==
    \E j \in 0..(Len(seq) - Len(pat)) : SubSeq(seq, j + 1, j + Len(pat)) = pat

\* a run call of the host in Spec, as a step
RunStep == \E E \in Elapsed : Run(E, MaxWaiting)

\* indices of the active entries that match the byte b
Matching(b) == {j \in 0..(size - 1) : isChosen(MenuArray(menu)[j + 1], b)}
LowestMatching(b) == CHOOSE j \in Matching(b) : \A k \in Matching(b) : j <= k

\* the callback of an invocation <<array name, index>>
CallbackOf(inv) == MenuArray(inv[1])[inv[2] + 1].actionCallback

\* C1: a run call whose pending byte is not 0x0A and is matched by at least one
\* active entry invokes the callback of the lowest-index matching entry, once,
\* and no other callback, and returns true (at once, or when the callback's
\* blocking read has ended).
C1_FirstMatchInvokedOnce ==
    [][ /\ (RunStep /\ rx # <<>> /\ Head(rx) # 10 /\ Matching(Head(rx)) # {})
           => /\ invoked' = << <<menu, LowestMatching(Head(rx))>> >>
              /\ ret' \in {"true", "pending"}
              /\ ret' = "pending" => pc' # "loop"
        /\ ret = "pending"
           => /\ invoked' = invoked
              /\ ret' \in {"true", "pending"}
              /\ (pc' = "loop") = (ret' = "true") ]_vars

\* C1 witness: 'A' typed at menu3, whose entries 1 ('a') and 2 ('A') both match:
\* entry 1 was invoked, alone, and run returned true.
C1_Witness ==
    /\ op = "run"
    /\ ret = "true"
    /\ invoked = << <<"menu3", 1>> >>
    /\ isChosen(menu3[3], 65)
    /\ nread = 1

\* C2: when the callback run invoked has called load, run writes no
\* "Invalid menu choice." diagnostic and invokes nothing further.
C2_ReentrantLoadSafe ==
    (op = "run" /\ ret = "true" /\ invoked # <<>>
        /\ CallbackOf(invoked[1]).op \in {"load", "loadshow"})
    => (Len(invoked) = 1 /\ ~Contains(out, InvalidText))

\* C3: a run call whose pending byte b is not 0x0A and matches no active entry
\* writes b, ": Invalid menu choice." and a newline (after the newline that ends
\* a line of idle markers, if the heartbeat writes one), invokes no callback,
\* leaves menu and size alone and returns true.
C3_UnmatchedDiagnosed ==
    [][ (RunStep /\ rx # <<>> /\ Head(rx) # 10 /\ Matching(Head(rx)) = {})
        => /\ out' \in {<<Head(rx)>> \o InvalidText \o CRLF,
                        CRLF \o <<Head(rx)>> \o InvalidText \o CRLF}
           /\ invoked' = <<>>
           /\ menu' = menu
           /\ size' = size
           /\ ret' = "true" ]_vars

\* C3 witness: 'x' typed at menu1, which has no such entry.
C3_Witness ==
    /\ op = "run"
    /\ ret = "true"
    /\ invoked = <<>>
    /\ menu = "menu1"
    /\ size = 3
    /\ EndsWith(out, <<120>> \o InvalidText \o CRLF)

\* C4: a run call whose pending byte is 0x0A returns false, invokes no callback
\* and writes no diagnostic, whatever is loaded.
C4_LineFeedIgnored ==
    [][ (RunStep /\ rx # <<>> /\ Head(rx) = 10)
        => /\ ret' = "false"
           /\ invoked' = <<>>
           /\ ~Contains(out', InvalidText)
           /\ pc' = "loop" ]_vars

\* C4 witness: 0x0A read by run while menu3 is loaded, whose entry 0 has the
\* selector '*' (0x2A = 0x0A | 0x20).
C4_Witness ==
    /\ op = "run"
    /\ sawInput
    /\ nread = 1
    /\ ret = "false"
    /\ menu = "menu3"
    /\ isChosen(menu3[1], 10)

\* C5: a run call made with nothing pending returns false, invokes no callback,
\* reads no byte and leaves menu and size alone.
C5_NoInputNoEffect ==
    [][ (RunStep /\ rx = <<>>)
        => /\ ret' = "false"
           /\ invoked' = <<>>
           /\ nread' = 0
           /\ rx' = rx
           /\ menu' = menu
           /\ size' = size
           /\ pc' = "loop" ]_vars

\* C5 witness: run has returned false without input, a menu being loaded.
C5_Witness ==
    /\ op = "run"
    /\ ~sawInput
    /\ ret = "false"
    /\ size > 0
    /\ rx = <<>>

---------------------------------------------------------------------------
(* Properties of SerialMenuEntry (SpecEntry).                              *)

IsUpper(x) == x >= 65 /\ x <= 90
IsLower(x) == x >= 97 /\ x <= 122
IsLetter(x) == IsUpper(x) \/ IsLower(x)
\* the letter x in lower case; any other byte unchanged
ToLower(x) == IF IsUpper(x) THEN x + 32 ELSE x
\* the same letter, in any pairing of cases
SameLetter(x, y) == IsLetter(x) /\ IsLetter(y) /\ ToLower(x) = ToLower(y)
\* equal in every bit but 0x20
EqualButBit20(x, y) == (x % 32 = y % 32) /\ (x \div 64 = y \div 64)

\* C6 as stated: isChosen(k) on an entry of selector s is true when s and k are
\* the same letter in any case pairing and false for every pair that differs in
\* more than letter case.
C6_CaseFoldOnly ==
    probe.stage = "asked"
    => /\ SameLetter(probe.s, probe.k) => probe.chosen
       /\ (probe.s # probe.k /\ ~SameLetter(probe.s, probe.k)) => ~probe.chosen

\* C6 amended: isChosen(k) on an entry of selector s, with either storage flag,
\* is true exactly when s and k are equal in every bit other than 0x20: true for
\* the same letter in any case pairing, false for every pair that differs in a
\* bit other than 0x20, and true for two non-letters that differ in bit 0x20 only.
C6_MatchIgnoresBit20 ==
    probe.stage = "asked"
    => /\ probe.chosen = EqualButBit20(probe.s, probe.k)
       /\ SameLetter(probe.s, probe.k) => probe.chosen

\* C6 witness: an entry of selector 'a' kept in SRAM (its key is stored as 'A')
\* asked about 'a' and found chosen.
C6_Witness ==
    /\ probe.stage = "asked"
    /\ probe.s = 97
    /\ ~probe.isprogMem
    /\ probe.key = 65
    /\ probe.k = 97
    /\ probe.chosen

---------------------------------------------------------------------------
(* Properties of the heartbeat (SpecLoop).                                 *)

\* a run call of the host loop in SpecLoop, as a step
LoopRunStep == Run(loopDelayMs, MaxLoopWaiting)

\* ticksPerBlink and ticksPerMarker for the elapsed time E
TicksPerBlink(E) == 1000 \div E
TicksPerMarker(E) == 10 * (1000 \div E)

\* C7: after every run call that saw input waiting is 0, so that waiting is the
\* number of consecutive run calls without input since the last one with input.
C7_ResetOnEveryInput ==
    /\ (op = "run" /\ sawInput /\ pc = "loop") => waiting = 0
    /\ waiting = idleCalls

\* C8: with a constant elapsed time E (ticksPerMarker >= 1) and waiting 0 at the
\* start of a run of calls without input: each of the first ticksPerMarker-1
\* calls writes no idle marker and does not write the LED; the
\* ticksPerMarker-th call writes one marker and writes the LED once; a run call
\* with input after that writes the newline first and sets waiting to 0.
C8_FirstMarker ==
    /\ [](  (op = "run" /\ ~sawInput /\ waiting = idleCalls
                /\ TicksPerMarker(loopDelayMs) >= 1)
            => /\ idleCalls < TicksPerMarker(loopDelayMs)
                  => (hbMark = 0 /\ hbLed = 0 /\ out = <<>>)
               /\ idleCalls = TicksPerMarker(loopDelayMs)
                  => (hbMark = 1 /\ hbLed = 1 /\ out = Dot) )
    /\ [][ (LoopRunStep /\ rx # <<>> /\ waiting = idleCalls
                /\ TicksPerMarker(loopDelayMs) >= 1
                /\ idleCalls >= TicksPerMarker(loopDelayMs))
           => (waiting' = 0 /\ StartsWith(out', CRLF)) ]_vars

\* C8 witness: the stated case, E = 100: the 100th call without input has
\* written the marker and the LED.
C8_Witness ==
    /\ loopDelayMs = 100
    /\ op = "run"
    /\ ~sawInput
    /\ idleCalls = 100
    /\ waiting = 100
    /\ hbMark = 1
    /\ hbLed = 1

---------------------------------------------------------------------------
(* Properties of getNumber (SpecNum).                                      *)

RECURSIVE DigitsValue(_)
\* the number a sequence of digit characters writes
DigitsValue(ds) ==
    IF ds = <<>> THEN 0
    ELSE 10 * DigitsValue(SubSeq(ds, 1, Len(ds) - 1)) + (ds[Len(ds)] - 48)

RECURSIVE Pow10(_)
Pow10(k) == IF k = 0 THEN 1 ELSE 10 * Pow10(k - 1)

AllDigits(ds) == \A j \in 1..Len(ds) : IsDigit(ds[j])

\* the bytes before the terminator, without the leading '-'
Unsigned(inp) ==
    LET body == SubSeq(inp, 1, Len(inp) - 1)
    IN  IF body # <<>> /\ body[1] = 45 THEN Tail(body) ELSE body

\* position of the decimal point in txt, 0 if it has none
PointAt(txt) ==
    IF \E j \in 1..Len(txt) : txt[j] = 46
    THEN CHOOSE j \in 1..Len(txt) : txt[j] = 46 /\ \A h \in 1..(j - 1) : txt[h] # 46
    ELSE 0

IntDigits(txt) == IF PointAt(txt) = 0 THEN txt ELSE SubSeq(txt, 1, PointAt(txt) - 1)
FracDigits(txt) == IF PointAt(txt) = 0 THEN <<>> ELSE SubSeq(txt, PointAt(txt) + 1, Len(txt))

\* inp is [ '-' ] digits [ '.' digits ] terminator
WellFormed(inp) ==
    /\ Len(inp) >= 2
    /\ ~IsNumeric(inp[Len(inp)])
    /\ IntDigits(Unsigned(inp)) # <<>>
    /\ AllDigits(IntDigits(Unsigned(inp)))
    /\ AllDigits(FracDigits(Unsigned(inp)))
    /\ PointAt(Unsigned(inp)) # 0 => FracDigits(Unsigned(inp)) # <<>>

\* the signed integer all the digits of inp form
SignedDigits(inp) ==
    LET v == DigitsValue(IntDigits(Unsigned(inp)) \o FracDigits(Unsigned(inp)))
    IN  IF inp[1] = 45 THEN -v ELSE v

\* that integer divided by 10^(digits after the point), truncated toward zero
Expected(inp) == TruncDiv(SignedDigits(inp), Pow10(Len(FracDigits(Unsigned(inp)))))

\* C9: for an input [ '-' ] digits [ '.' digits ] terminator whose values (the
\* integer the digits form, the result) are in T's range, getNumber<T> returns
\* the integer formed by all the digits divided by 10^(digits after the point),
\* truncated toward zero.
C9_NumberValue ==
    (op = "getNumber" /\ pc = "loop" /\ numResult # <<>> /\ WellFormed(numIn)
        /\ InRange(num.T, SignedDigits(numIn)) /\ InRange(num.T, Expected(numIn)))
    => numResult[1] = Expected(numIn)

---------------------------------------------------------------------------
(* Properties of show (SpecShow).                                          *)

\* C10: show of a menu whose one entry has a PROGMEM label of any length writes
\* exactly the characters of the label, in order, each once, and a newline.
C10_LongLabelShown ==
    (op = "show" /\ menu = "menuLong")
    => out = MenuHeader \o CRLF \o LongLabel(flashLen) \o CRLF

---------------------------------------------------------------------------
(* load with a null array.                                                 *)

\* C11: load with a null array and a nonzero count leaves menu and size as
\* they were, so the engine never holds a null menu with a nonzero size and no
\* run or show reads an entry through a null pointer.
C11_NullLoadRejected ==
    /\ ~NullDeref(menu, size)
    /\ pc # "undefined"

---------------------------------------------------------------------------
(* The singleton.                                                          *)

\* C12: over any sequence of get() and get(array, arraySize) calls the
\* constructor (transport opened, readiness awaited, banner written) runs exactly
\* once, in the first call; every call returns the same object; a later get()
\* writes nothing and changes nothing of the engine or the transport.
C12_InitializedOnce ==
    [][ (Get \/ \E m \in GetArrays : GetLoad(m))
        => /\ inits' = 1
           /\ singleton' = 1
           /\ (singleton = 0) => (inits = 0 /\ out' = println(SERIAL_MENU_COPYRIGHT))
           /\ (singleton # 0) => (inits = 1 /\ out' = <<>>)
           /\ (Get /\ singleton # 0)
                 => UNCHANGED <<menu, size, waiting, rx, led, pc, frame, singleton,
                                inits>> ]_vars

\* C12 witness: the engine has been asked for again after get(menu2, 4).
C12_Witness ==
    /\ op = "get"
    /\ inits = 1
    /\ singleton = 1
    /\ out = <<>>
    /\ menu = "menu2"

---------------------------------------------------------------------------
(* Blocking reads (SpecBlock).                                             *)

InGetNumber == pc \in {"num0", "num1", "num2", "num3"}
Blocked == InGetNumber \/ pc = "chr"

\* the byte c ends the number when read at position p: it is neither a digit
\* nor '.', nor the one line feed skipped at the start, nor the sign
EndsNumber(p, c) ==
    /\ ~(c >= 48 /\ c <= 57)
    /\ c # 46
    /\ ~(p = "num0" /\ c = 10)
    /\ ~(p \in {"num0", "num1"} /\ c = 45)

\* C13: the blocking reads have no timeout.  While no byte is pending a blocked
\* call does nothing; getChar returns exactly with the next byte; getNumber
\* returns exactly on reading a byte that ends the number, which it does
\* whenever such a byte becomes pending; and the run call that dispatched a
\* blocked action has not returned as long as the action has not.
C13_BlockingReads ==
    /\ [][ (Blocked /\ rx = <<>>)
           => (pc' = pc /\ numIn' = numIn /\ numResult' = numResult /\ ret' = ret) ]_vars
    /\ [][ (pc = "chr" /\ pc' # "chr")
           => (rx # <<>> /\ numResult' = <<Head(rx)>> /\ rx' = Tail(rx)) ]_vars
    /\ [][ (InGetNumber /\ (numIn' # numIn \/ pc' # pc))
           => /\ rx # <<>>
              /\ numIn' = Append(numIn, Head(rx))
              /\ (pc' = "loop") <=> EndsNumber(pc, Head(rx)) ]_vars
    /\ []((ret = "pending") => (pc # "loop"))
    /\ [][ (ret = "pending" /\ ret' # "pending") => (InGetNumber /\ pc' = "loop") ]_vars
    /\ (pc = "chr" /\ rx # <<>>) ~> (pc = "loop")
    /\ (InGetNumber /\ rx # <<>> /\ EndsNumber(pc, Head(rx))) ~> (pc = "loop")
    /\ (pc \in {"num2", "num3"} /\ \E j \in 1..Len(rx) : EndsNumber(pc, rx[j]))
          ~> (pc = "loop")

\* C13 witness: run dispatched foo, whose getNumber has read "2" and is blocked
\* with nothing pending.
C13_Witness ==
    /\ pc = "num3"
    /\ frame.caller = "run"
    /\ ret = "pending"
    /\ numIn = <<50>>
    /\ rx = <<>>

---------------------------------------------------------------------------
(* The decimal point in getNumber (SpecNum).                               *)

\* C14: only the first '.' belongs to the number: a second '.' ends the parse.
\* It is the last byte the call reads, the call returns on reading it, and the
\* divisor is the one the digits before it gave (10 for "1.2.").
C14_SecondPointEnds ==
    \A j \in 1..Len(numIn) :
        (numIn[j] = 46 /\ \E h \in 1..(j - 1) : numIn[h] = 46)
            => /\ j = Len(numIn)
               /\ pc = "loop"
               /\ num.decimals = Pow10(Len(FracDigits(SubSeq(numIn, 1, j - 1))))

---------------------------------------------------------------------------
(* What getNumber consumes (SpecConsume).                                  *)

\* a byte of the numeric run: a digit or '.'
InRun(c) == (c >= 48 /\ c <= 57) \/ c = 46

\* how many bytes of inp come before the numeric run: one line feed if inp
\* starts with one, then one '-' if that follows
LeadLen(inp) ==
    LET lf == IF Len(inp) >= 1 /\ inp[1] = 10 THEN 1 ELSE 0
    IN  IF Len(inp) > lf /\ inp[lf + 1] = 45 THEN lf + 1 ELSE lf

\* inp is an optional line feed, an optional '-', then bytes of the numeric run
LeadAndRun(inp) == \A j \in (LeadLen(inp) + 1)..Len(inp) : InRun(inp[j])

\* inp is that followed by exactly one byte that is not of the numeric run
Consumed(inp) ==
    /\ Len(inp) > LeadLen(inp)
    /\ LeadAndRun(SubSeq(inp, 1, Len(inp) - 1))
    /\ LeadLen(SubSeq(inp, 1, Len(inp) - 1)) = LeadLen(inp)
    /\ ~InRun(inp[Len(inp)])

\* C15: getNumber consumes at most one leading 0x0A, an optional '-', the
\* numeric run and exactly one terminating byte: while it is blocked it has read
\* a lead and a run, when it has returned it has read one more byte, each read
\* takes the oldest pending byte and leaves the others pending in order, and
\* nothing is read or put back once it has returned.  A second leading 0x0A is
\* the terminator and the result is 0.
C15_ConsumesOneTerminator ==
    /\ [](InGetNumber => LeadAndRun(numIn))
    /\ []((pc = "loop" /\ op = "getNumber") => Consumed(numIn))
    /\ [][ (InGetNumber /\ numIn' # numIn)
           => (rx # <<>> /\ numIn' = Append(numIn, Head(rx)) /\ rx' = Tail(rx)) ]_vars
    /\ [][ (pc = "loop" /\ pc' = "loop")
           => (numIn' = numIn /\ Len(rx') >= Len(rx) /\ SubSeq(rx', 1, Len(rx)) = rx) ]_vars
    /\ []((pc # "num0" /\ Len(numIn) >= 2 /\ numIn[1] = 10 /\ numIn[2] = 10)
             => (pc = "loop" /\ numIn = <<10, 10>> /\ numResult = <<0>>))

\* C15 witness: "\n\n" was read, 0 returned, and the byte that arrived after the
\* second line feed is still pending.
C15_Witness ==
    /\ pc = "loop"
    /\ op = "getNumber"
    /\ numIn = <<10, 10>>
    /\ numResult = <<0>>
    /\ rx = <<50>>

---------------------------------------------------------------------------
(* What each operation leaves alone (SpecOps).                             *)

\* a run call of the host in SpecOps, as a step
OpsRunStep == \E E \in Elapsed : Run(E, MaxWaiting)
\* a load call of the host in SpecOps, as a step
OpsLoadStep == \E m \in OpsArrays : Load(m)

\* C16: menu and size change only in load, called by the host or by the
\* callback a run call invokes: show, getChar, getNumber and a run call whose
\* callback does not call load leave them as they were.  waiting changes only
\* in run.
C16_Frame ==
    [][ /\ (menu' # menu \/ size' # size)
           => \/ OpsLoadStep
              \/ /\ OpsRunStep
                 /\ invoked' # <<>>
                 /\ CallbackOf(invoked'[1]).op \in {"load", "loadshow"}
        /\ (Show \/ GetChar \/ CharStep \/ GetNumber("uint16_t", FALSE) \/ NumStep)
           => (menu' = menu /\ size' = size /\ waiting' = waiting)
        /\ OpsLoadStep => waiting' = waiting
        /\ (waiting' # waiting) => OpsRunStep ]_vars

\* C16 witness: show was called with a menu loaded and the idle counter
\* running.
C16_Witness ==
    /\ op = "show"
    /\ menu = "menu1"
    /\ size = 3
    /\ waiting = 2

---------------------------------------------------------------------------
(* The heartbeat's divisors.                                               *)

\* C17: whatever nonzero delay run is called with, callsPerSecond, the ticks
\* per blink and the ticks per marker are all at least 1, so waiting is never
\* taken modulo zero.
C17_DivisorsNonzero ==
    (op = "run" /\ loopDelayMs >= 1 /\ loopDelayMs <= 65535)
        => /\ callsPerSecond(loopDelayMs) >= 1
           /\ loopsPerBlink(loopDelayMs) >= 1
           /\ loopsPerTick(loopDelayMs) >= 1

---------------------------------------------------------------------------
(* The heartbeat over a long idle time (SpecWrap).                         *)

\* a run call of the host in SpecWrap, as a step
WrapRunStep == Run(loopDelayMs, Uint16Modulus)

\* C18: in a run of calls without input and with a constant delay, started with
\* waiting 0, the n-th call writes an idle marker exactly when n is a multiple
\* of ticksPerMarker, however long the run is; and once a marker has been
\* written, the next call with input writes the newline first.
C18_MarkerEveryPeriod ==
    [][ WrapRunStep
        => /\ (rx = <<>>)
              => ((hbMark' = 1) <=> (idleCalls' % TicksPerMarker(loopDelayMs) = 0))
           /\ (rx # <<>> /\ idleCalls >= TicksPerMarker(loopDelayMs))
              => StartsWith(out', CRLF) ]_vars

---------------------------------------------------------------------------
(* A burst of pending bytes (SpecBlock).                                   *)

\* a run call of the host in SpecBlock, as a step
BlockRunStep == Run(BlockDelay, MaxWaiting)

\* C19: a run call reads no byte when none is pending and exactly one, the
\* oldest, when some are: the others stay pending in their order, whatever the
\* call does with the byte it read (ignore a line feed, reject it, or dispatch
\* the entry it chooses, whose action may then read on).  So n pending bytes
\* take n run calls, in arrival order.
C19_OneBytePerRun ==
    [][ BlockRunStep
        => /\ (rx = <<>>) => (rx' = rx /\ nread' = 0 /\ ~sawInput')
           /\ (rx # <<>>)
              => /\ rx' = Tail(rx)
                 /\ nread' = 1
                 /\ sawInput'
                 /\ (Head(rx) = LF) => (ret' = "false" /\ invoked' = <<>>)
                 /\ (Head(rx) # LF /\ Matching(Head(rx)) = {})
                    => (ret' = "true" /\ invoked' = <<>>
                        /\ EndsWith(out', <<Head(rx)>> \o println(InvalidText)))
                 /\ (Head(rx) # LF /\ Matching(Head(rx)) # {})
                    => invoked' = << <<menu, LowestMatching(Head(rx))>> >> ]_vars

\* C19 witness: of two pending bytes "2-" a run call has read and rejected the
\* first; the second is still pending.
C19_Witness ==
    /\ op = "run"
    /\ nread = 1
    /\ ret = "true"
    /\ EndsWith(out, <<50>> \o println(InvalidText))
    /\ rx = <<45>>

============================================================================
